---- MODULE Spec2Model ----
(***************************************************************************)
(* A model of the webcam service: the camera pipeline supervisor           *)
(* (webcam/camera.py: setup/cleanup, the two stderr monitors, the frame    *)
(* reader) and the HTTP handlers that read the frame cache (webcam/web.py).*)
(*                                                                         *)
(* Threads are Python threads: one step of a thread is one statement (or   *)
(* one blocking call) of its function; statements of different threads     *)
(* interleave freely.                                                      *)
(***************************************************************************)
EXTENDS Integers, Sequences, FiniteSets, TLC

\* Python's None, for the globals that hold a handle, a frame or a time
None == -1

(* ---- bounds of the model ---- *)
\* lines a monitor may read from a stderr stream before only EOF is left
MaxLines == 2
\* chunks per stderr line
MaxLineLen == 2
\* frames the device yields in one run
MaxFrames == 3
\* ticks of the wall clock after T0
MaxTicks == 6
\* cleanup_camera() calls the main thread makes in one run
MaxCleanups == 2
\* setup_camera() calls made in the life of one process
MaxSetups == 2

(* ---- constants of the program ---- *)
\* camera.py line 109: if retries > 5
OpenRetryLimit == 5
\* camera.py line 127: if retries > 500
ReadRetryLimit == 500
\* web.py line 48: frame_buffer_time > time.time() - 5
StaleAfter == 5
\* time.time() at process start: a positive epoch time, never 0
T0 == 10

(* ---- threads ---- *)
\* A thread is <<target function, number of the setup_camera() call that
\* started it>> (0 for the threads setup_camera() does not start).
MAIN == <<"main", 0>>
READER == <<"frame_reader", 0>>
MonitorFns == {"monitor_ffmpeg_output", "monitor_gphoto_output"}
\* the two monitors the first setup_camera() call starts
MON_FFMPEG == <<"monitor_ffmpeg_output", 1>>
MON_GPHOTO == <<"monitor_gphoto_output", 1>>
FirstMonitors == {MON_FFMPEG, MON_GPHOTO}
Monitors == MonitorFns \X (1..MaxSetups)
Threads == {MAIN, READER} \cup Monitors

(* ---- processes: the Popen objects the two globals may refer to ---- *)
\* the k-th setup_camera() call launches gphoto2 as process 2k-1 and ffmpeg
\* as process 2k
SourceOf(k) == 2 * k - 1
ConverterOf(k) == 2 * k
\* the two processes of the first setup_camera() call
GPHOTO2 == 1
FFMPEG == 2
ProcIds == 1..(2 * MaxSetups)
IsGphoto2(p) == p % 2 = 1
FirstProcs == {GPHOTO2, FFMPEG}

VARIABLES
    \* camera.py module globals
    gphoto2_process, ffmpeg_process, frame_buffer, frame_buffer_time,
    \* operating system: state of each spawned process, v4l2loopback loaded
    procState, moduleLoaded,
    \* per thread: position, position inside cleanup_camera, this call's
    \* step log, number of cleanup_camera calls made, and the exception that
    \* ended the thread, if one did
    pc, cstep, clog, cleanupCalls, raised,
    \* per thread: the latest cleanup_camera() call that has returned, if any:
    \* whether every step of it was done, and the state of the pipeline it left
    past,
    \* what each Popen call was given, and the configured executable paths
    \* (camera.py lines 11-12, set by main() in service.py lines 142-147)
    proc, GPHOTO2_PATH, FFMPEG_PATH,
    \* main thread: setup_camera() calls begun, where its cleanup_camera() call
    \* and its setup_camera() call return to, what failed in the latest
    \* setup_camera() call and how that call ended for its caller
    setups, mainRet, setupRet, setupFailure, setupOutcome,
    \* the argument lists of the subprocess.run() calls the latest
    \* setup_camera() call has made
    cmds,
    \* main(): the parsed command line, and the calls main() itself has made
    args, calls,
    \* monitors: lines read, and what the stream has shown so far
    nread, fatalSeen, eofSeen, readAfterFatal,
    \* frame_reader locals (cap, retries) and its history
    capOpen, retries, openRun, softRun, exitReason, released, attemptAfterHard,
    \* frames: the next frame the device yields, timestamp each was published with
    nextFrame, pubTime,
    \* wall clock, the HTTP request being served, and service.start_time
    \* (service.py line 15: the clock when the module was imported)
    now, req, start_time,
    \* which part of the program the behaviour is a behaviour of (it never
    \* changes)
    part

procVars == <<gphoto2_process, ffmpeg_process, procState, moduleLoaded,
              proc, GPHOTO2_PATH, FFMPEG_PATH>>
thrVars == <<pc, cstep, clog, cleanupCalls, raised, past>>
cliVars == <<args, calls>>
mainVars == <<setups, mainRet, setupRet, setupFailure, setupOutcome, cmds, cliVars>>
monVars == <<nread, fatalSeen, eofSeen, readAfterFatal>>
rdrVars == <<capOpen, retries, openRun, softRun, exitReason, released, attemptAfterHard>>
cacheVars == <<frame_buffer, frame_buffer_time, nextFrame, pubTime>>
httpVars == <<now, req, start_time, part>>
vars == <<procVars, thrVars, mainVars, monVars, rdrVars, cacheVars, httpVars>>

\* the command line of a process in which main() is not run
NoArgs ==
    [install |-> FALSE, uninstall |-> FALSE, start |-> FALSE, stop |-> FALSE,
     port |-> None, ids |-> FALSE, bare |-> FALSE]

(***************************************************************************)
(* stderr lines.  A line is the bytes readline() returns: a sequence of    *)
(* chunks; the empty sequence is b"", which readline() returns at end of   *)
(* stream only (a blank line is the newline chunk).                        *)
(***************************************************************************)
InvalidData == "Invalid data found"
NoDevice == "Could not find the requested device"
LowerInvalid == "invalid data found"
Info == "all good"
Newline == "LF"
BadByte == "0xFF"
Chunks == {InvalidData, NoDevice, LowerInvalid, Info, Newline, BadByte}
EOF == <<>>

SeqsUpTo(S, n) == UNION {[1..k -> S] : k \in 1..n}
Lines == SeqsUpTo(Chunks, MaxLineLen)

\* bytes.decode("utf-8"): strict, raises UnicodeDecodeError (ok = FALSE) on a
\* byte that is not UTF-8, else gives the text
Decode(b) ==
    IF \E i \in DOMAIN b : b[i] = BadByte
    THEN [ok |-> FALSE, text |-> <<>>]
    ELSE [ok |-> TRUE, text |-> b]

\* Python's  S in line  (case-sensitive substring)
Contains(line, S) == \E i \in DOMAIN line : line[i] = S

\* the condition of camera.py lines 146-149 and 165-168
IsFatal(line) == Contains(line, InvalidData) \/ Contains(line, NoDevice)

(***************************************************************************)
(* cleanup_camera(), camera.py lines 74-96: four guarded steps.            *)
(*   1  gphoto2_process.terminate()   (only if the handle is set)          *)
(*   2  ffmpeg_process.terminate()    (only if the handle is set)          *)
(*   3  sudo pkill -9 gphoto2                                              *)
(*   4  sudo rmmod v4l2loopback                                            *)
(* Outcome of a step: "none" (no handle, nothing called), "ok", or "err"   *)
(* (the call raised).                                                      *)
(***************************************************************************)
CleanupSteps == 1..4
Returned == 5
Propagated == 0

HandleOf(i) == IF i = 1 THEN gphoto2_process ELSE ffmpeg_process

\* a bug: terminate() is called without the  if handle:  test, and raises
\* on None
StepOutcomesUnguarded(i) ==
    IF i \in {1, 2} /\ HandleOf(i) = None THEN {"err"} ELSE {"ok", "err"}

\* lines 78 and 83: terminate() is called only on a handle that is set; any
\* call made may raise
StepOutcomes(i) ==
    IF i \in {1, 2} /\ HandleOf(i) = None THEN {"none"} ELSE {"ok", "err"}

\* a bug: one handler around all four steps, an error skips the rest
CleanupNextSkipsRest(i, out) == IF out = "err" THEN Returned ELSE i + 1

\* a bug: no handler around the steps, what a step raises leaves the call
CleanupNextPropagates(i, out) == IF out = "err" THEN Propagated ELSE i + 1

\* each step has its own  except Exception  that logs and falls through to
\* the next step; after step 4 the function returns
CleanupNext(i, out) == i + 1

\* where a thread goes when cleanup_camera() returns
AfterCleanup(t) ==
    IF t \in Monitors THEN "stopped"
    ELSE IF t = READER THEN "done"
    ELSE mainRet

\* send SIGTERM to the process behind a handle
Terminate(ps, h) == [ps EXCEPT ![h] = IF @ = "running" THEN "terminated" ELSE @]

\* pkill -9 gphoto2: every live gphoto2 process is killed
KillByName(ps) ==
    [p \in ProcIds |-> IF IsGphoto2(p) /\ ps[p] \in {"running", "terminated"}
                        THEN "killed" ELSE ps[p]]

\* the effect of step i with outcome out on the processes and the module
StepEffect(i, out) ==
    /\ procState' = IF out # "ok" THEN procState
                    ELSE IF i \in {1, 2} THEN Terminate(procState, HandleOf(i))
                    ELSE IF i = 3 THEN KillByName(procState)
                    ELSE procState
    /\ moduleLoaded' = IF out = "ok" /\ i = 4 THEN FALSE ELSE moduleLoaded
    /\ UNCHANGED <<gphoto2_process, ffmpeg_process, proc, GPHOTO2_PATH, FFMPEG_PATH>>

\* no step of the call raised
AllDone(log) == \A k \in DOMAIN log : log[k][2] # "err"

\* what cleanup_camera() acts on
PipelineState ==
    [gphoto2_process |-> gphoto2_process, ffmpeg_process |-> ffmpeg_process,
     procState |-> procState, moduleLoaded |-> moduleLoaded]

\* a thread enters cleanup_camera()
EnterCleanup(t) ==
    /\ pc' = [pc EXCEPT ![t] = "cleanup"]
    /\ cstep' = [cstep EXCEPT ![t] = 1]
    /\ clog' = [clog EXCEPT ![t] = <<>>]
    /\ cleanupCalls' = [cleanupCalls EXCEPT ![t] = @ + 1]
    /\ UNCHANGED <<raised, past>>

\* one guarded step of cleanup_camera() run by thread t
CleanupStep(t) ==
    /\ pc[t] = "cleanup"
    /\ \E out \in StepOutcomes(cstep[t]) :
        LET i == cstep[t]
            n == CleanupNext(i, out)
        IN  /\ StepEffect(i, out)
            /\ clog' = [clog EXCEPT ![t] = Append(@, <<i, out>>)]
            /\ cstep' = [cstep EXCEPT ![t] = IF n \in CleanupSteps THEN n ELSE 0]
            /\ pc' = [pc EXCEPT ![t] = IF n \in CleanupSteps THEN "cleanup"
                                       ELSE IF n = Propagated THEN "crashed"
                                       ELSE AfterCleanup(t)]
            /\ raised' = [raised EXCEPT ![t] = IF n = Propagated THEN "Exception" ELSE @]
            /\ past' = [past EXCEPT ![t] =
                            IF n = Returned
                            THEN <<[clean |-> AllDone(clog'[t]), state |-> PipelineState']>>
                            ELSE @]
            /\ UNCHANGED cleanupCalls
    /\ UNCHANGED <<monVars, rdrVars, cacheVars, httpVars, mainVars>>

(***************************************************************************)
(* monitor_ffmpeg_output / monitor_gphoto_output, camera.py lines 139-174. *)
(* One step is one iteration of the  while True  loop: readline(), decode, *)
(* the EOF test, the fatal test.                                           *)
(***************************************************************************)
\* the process whose stderr monitor m reads
Watched(m) ==
    IF m[1] = "monitor_ffmpeg_output" THEN ffmpeg_process ELSE gphoto2_process

\* a bug: the empty read is ignored and the loop goes on
EofIgnored == "watch"

\* lines 144-145 and 163-164:  if not output: break
AfterEof == "stopped"

MonitorRead(m) ==
    /\ pc[m] = "watch"
    /\ Watched(m) # None
    /\ \E b \in (IF nread[m] < MaxLines THEN Lines ELSE {}) \cup {EOF} :
        LET d == Decode(b) IN
        /\ nread' = [nread EXCEPT ![m] = IF b = EOF THEN @ ELSE @ + 1]
        /\ readAfterFatal' = [readAfterFatal EXCEPT ![m] = @ \/ fatalSeen[m]]
        /\ fatalSeen' = [fatalSeen EXCEPT ![m] = @ \/ IsFatal(b)]
        /\ eofSeen' = [eofSeen EXCEPT ![m] = @ \/ b = EOF]
        /\ IF ~d.ok
             THEN \* the exception ends the thread
                  /\ pc' = [pc EXCEPT ![m] = "crashed"]
                  /\ raised' = [raised EXCEPT ![m] = "UnicodeDecodeError"]
                  /\ UNCHANGED <<cstep, clog, cleanupCalls, past>>
             ELSE IF d.text = EOF
             THEN /\ pc' = [pc EXCEPT ![m] = AfterEof]
                  /\ UNCHANGED <<cstep, clog, cleanupCalls, raised, past>>
             ELSE IF IsFatal(d.text)
             THEN EnterCleanup(m)
             ELSE UNCHANGED thrVars
    /\ UNCHANGED <<procVars, rdrVars, cacheVars, httpVars, mainVars>>

(***************************************************************************)
(* frame_reader(), camera.py lines 99-136.                                 *)
(*   start    line 102: cap = cv2.VideoCapture(...), outside the try       *)
(*   loop     line 104-106: top of  while True, cap.isOpened()             *)
(*   reopen   line 114-115: sleep(2), cap = cv2.VideoCapture(...)          *)
(*   stamp    line 121: frame_buffer is written, frame_buffer_time is not  *)
(*   release  line 135: cap.release()                                      *)
(*   cleanup  line 136: cleanup_camera()                                   *)
(* capOpen is what cap.isOpened() returns.  retries is the one local       *)
(* counter of line 103.  openRun and softRun count the consecutive         *)
(* isOpened() = False results and the consecutive  ret = False  reads.     *)
(***************************************************************************)
ExitPcs == {"release", "cleanup", "done"}

\* line 102: the first open; VideoCapture may give an opened capture, one
\* that is not opened, or raise (the statement is outside the try block, so
\* the exception ends the thread)
ReaderStart ==
    /\ pc[READER] = "start"
    /\ \E r \in {"opened", "not opened", "raised"} :
        /\ capOpen' = (r = "opened")
        /\ retries' = 0
        /\ pc' = [pc EXCEPT ![READER] = IF r = "raised" THEN "crashed" ELSE "loop"]
        /\ raised' = [raised EXCEPT ![READER] =
                        IF r = "raised" THEN "exception from cv2.VideoCapture" ELSE @]
    /\ UNCHANGED <<openRun, softRun, exitReason, released, attemptAfterHard>>
    /\ UNCHANGED <<cstep, clog, cleanupCalls, past>>
    /\ UNCHANGED <<procVars, monVars, cacheVars, httpVars, mainVars>>

\* the device goes away under an opened capture
DeviceLost ==
    /\ pc[READER] \in {"loop", "stamp"}
    /\ capOpen
    /\ capOpen' = FALSE
    /\ UNCHANGED <<retries, openRun, softRun, exitReason, released, attemptAfterHard>>
    /\ UNCHANGED <<procVars, thrVars, monVars, cacheVars, httpVars, mainVars>>

\* line 109
OpenLimitExceeded(n) == n > OpenRetryLimit

\* line 127
ReadLimitExceeded(n) == n > ReadRetryLimit

\* lines 106-113: isOpened() is False; count it, give up above the limit
ReaderNotOpened ==
    /\ pc[READER] = "loop"
    /\ ~capOpen
    /\ retries' = retries + 1
    /\ openRun' = openRun + 1
    /\ attemptAfterHard' = (attemptAfterHard \/ exitReason = "hard")
    /\ IF OpenLimitExceeded(retries')
         THEN /\ pc' = [pc EXCEPT ![READER] = "release"]
              /\ exitReason' = "open"
         ELSE /\ pc' = [pc EXCEPT ![READER] = "reopen"]
              /\ UNCHANGED exitReason
    /\ UNCHANGED <<capOpen, softRun, released>>
    /\ UNCHANGED <<cstep, clog, cleanupCalls, raised, past>>
    /\ UNCHANGED <<procVars, monVars, cacheVars, httpVars, mainVars>>

\* lines 114-116: sleep, open again, continue
ReaderReopen ==
    /\ pc[READER] = "reopen"
    /\ \E opened \in BOOLEAN : capOpen' = opened
    /\ attemptAfterHard' = (attemptAfterHard \/ exitReason = "hard")
    /\ pc' = [pc EXCEPT ![READER] = "loop"]
    /\ UNCHANGED <<retries, openRun, softRun, exitReason, released>>
    /\ UNCHANGED <<cstep, clog, cleanupCalls, raised, past>>
    /\ UNCHANGED <<procVars, monVars, cacheVars, httpVars, mainVars>>

\* /dev/video0 is fed: some ffmpeg process (lines 50-64, writing to
\* /dev/video0) runs, and so does the gphoto2 process whose stdout is its
\* stdin (line 61)
DeviceFed ==
    \E f \in ProcIds :
        /\ ~IsGphoto2(f) /\ procState[f] = "running"
        /\ proc[f].stdin # None /\ procState[proc[f].stdin] = "running"

\* a subprocess fails: gphoto2 or ffmpeg ends on its own
SubprocessExits ==
    /\ \E p \in ProcIds :
        /\ procState[p] = "running"
        /\ procState' = [procState EXCEPT ![p] = "exited"]
    /\ UNCHANGED <<gphoto2_process, ffmpeg_process, moduleLoaded, proc,
                   GPHOTO2_PATH, FFMPEG_PATH>>
    /\ UNCHANGED <<thrVars, monVars, rdrVars, cacheVars, httpVars, mainVars>>

\* lines 118-120: isOpened() is True, read() gives a frame (the device is
\* fed), the frame is stored
ReaderReadFrame ==
    /\ pc[READER] = "loop"
    /\ capOpen
    /\ DeviceFed
    /\ nextFrame <= MaxFrames
    /\ frame_buffer' = nextFrame
    /\ nextFrame' = nextFrame + 1
    /\ openRun' = 0
    /\ softRun' = 0
    /\ attemptAfterHard' = (attemptAfterHard \/ exitReason = "hard")
    /\ pc' = [pc EXCEPT ![READER] = "stamp"]
    /\ UNCHANGED <<frame_buffer_time, pubTime>>
    /\ UNCHANGED <<capOpen, retries, exitReason, released>>
    /\ UNCHANGED <<cstep, clog, cleanupCalls, raised, past>>
    /\ UNCHANGED <<procVars, monVars, httpVars, mainVars>>

\* lines 121-123: the time is stored, the counter is reset, sleep
ReaderStamp ==
    /\ pc[READER] = "stamp"
    /\ frame_buffer_time' = now
    /\ pubTime' = [pubTime EXCEPT ![frame_buffer] = now]
    /\ retries' = 0
    /\ pc' = [pc EXCEPT ![READER] = "loop"]
    /\ UNCHANGED <<frame_buffer, nextFrame>>
    /\ UNCHANGED <<capOpen, openRun, softRun, exitReason, released, attemptAfterHard>>
    /\ UNCHANGED <<cstep, clog, cleanupCalls, raised, past>>
    /\ UNCHANGED <<procVars, monVars, httpVars, mainVars>>

\* a bug: a read that gives no frame clears the frame cache
ReadNothingClearsCache ==
    /\ pc[READER] = "loop"
    /\ capOpen
    /\ retries' = retries + 1
    /\ softRun' = softRun + 1
    /\ openRun' = 0
    /\ attemptAfterHard' = (attemptAfterHard \/ exitReason = "hard")
    /\ IF ReadLimitExceeded(retries')
         THEN /\ pc' = [pc EXCEPT ![READER] = "release"]
              /\ exitReason' = "read"
         ELSE /\ UNCHANGED pc
              /\ UNCHANGED exitReason
    /\ UNCHANGED <<capOpen, released>>
    /\ UNCHANGED <<cstep, clog, cleanupCalls, raised, past>>
    /\ frame_buffer' = None /\ frame_buffer_time' = None
    /\ UNCHANGED <<nextFrame, pubTime>>
    /\ UNCHANGED <<procVars, monVars, httpVars, mainVars>>

\* lines 118, 124-130: isOpened() is True, read() gives no frame; count it,
\* give up above the limit
ReaderReadNothing ==
    /\ pc[READER] = "loop"
    /\ capOpen
    /\ retries' = retries + 1
    /\ softRun' = softRun + 1
    /\ openRun' = 0
    /\ attemptAfterHard' = (attemptAfterHard \/ exitReason = "hard")
    /\ IF ReadLimitExceeded(retries')
         THEN /\ pc' = [pc EXCEPT ![READER] = "release"]
              /\ exitReason' = "read"
         ELSE /\ UNCHANGED pc
              /\ UNCHANGED exitReason
    /\ UNCHANGED <<capOpen, released>>
    /\ UNCHANGED <<cstep, clog, cleanupCalls, raised, past>>
    /\ UNCHANGED <<procVars, monVars, cacheVars, httpVars, mainVars>>

\* a bug: the handler logs and the loop goes on
HardFailureContinues == "loop"

\* line 133: break
AfterHardFailure == "release"

\* lines 131-133: isOpened(), VideoCapture() or read() raises inside the
\* try block
ReaderHardFailure ==
    /\ pc[READER] \in {"loop", "reopen"}
    /\ exitReason' = "hard"
    /\ pc' = [pc EXCEPT ![READER] = AfterHardFailure]
    /\ UNCHANGED <<capOpen, retries, openRun, softRun, released, attemptAfterHard>>
    /\ UNCHANGED <<cstep, clog, cleanupCalls, raised, past>>
    /\ UNCHANGED <<procVars, monVars, cacheVars, httpVars, mainVars>>

\* lines 135-136: cap.release(), then the call of cleanup_camera()
ReaderRelease ==
    /\ pc[READER] = "release"
    /\ capOpen' = FALSE
    /\ released' = TRUE
    /\ EnterCleanup(READER)
    /\ UNCHANGED <<retries, openRun, softRun, exitReason, attemptAfterHard>>
    /\ UNCHANGED <<procVars, monVars, cacheVars, httpVars, mainVars>>

(***************************************************************************)
(* setup_camera(), camera.py lines 32-71, run by the main thread.          *)
(*   s35  subprocess.run(pkill -9 gphoto2, check=False)                    *)
(*   s36  subprocess.run(rmmod v4l2loopback, check=False)                  *)
(*   s37  subprocess.run(modprobe v4l2loopback devices=1 ..., check=True)  *)
(*   s43  gphoto2_process = Popen(...)            \                        *)
(*   s50  ffmpeg_process = Popen(...)              |  inside  try          *)
(*   s67  Thread(monitor_ffmpeg_output).start()    |                       *)
(*   s68  Thread(monitor_gphoto_output).start()   /                        *)
(*   s71  the  except Exception  handler has called cleanup_camera()       *)
(* Lines 35-37 are outside the try: what they raise reaches the caller.    *)
(***************************************************************************)
DefaultGphoto2 == "/usr/bin/gphoto2"
DefaultFfmpeg == "/usr/bin/ffmpeg"
Gphoto2Paths == {DefaultGphoto2, "/opt/gphoto2"}
FfmpegPaths == {DefaultFfmpeg, "/opt/ffmpeg"}

\* a process no Popen call has made
NoProc == [argv |-> <<>>, stdin |-> None, stdout |-> "", stderr |-> ""]

\* lines 43-47
Gphoto2Popen(path) ==
    [argv |-> <<path, "--stdout", "--capture-movie">>,
     stdin |-> None, stdout |-> "PIPE", stderr |-> "PIPE"]

\* a bug: ffmpeg is launched without the pipe from gphoto2
StdinInherited(src) == None

\* line 61: stdin=gphoto2_process.stdout
StdinOfConverter(src) == src

\* lines 50-64; src is the process whose stdout pipe becomes the stdin
FfmpegPopen(path, src) ==
    [argv |-> <<path, "-i", "-", "-pix_fmt", "yuv420p", "-f", "v4l2", "/dev/video0">>,
     stdin |-> StdinOfConverter(src), stdout |-> "DEVNULL", stderr |-> "PIPE"]

SetupPcs == {"s35", "s36", "s37", "s43", "s50", "s67", "s68", "s71"}

\* setup_camera() is called; retTo is where its caller goes on
SetupCall(retTo) ==
    /\ setups < MaxSetups
    /\ setups' = setups + 1
    /\ pc' = [pc EXCEPT ![MAIN] = "s35"]
    /\ setupRet' = retTo
    /\ setupFailure' = "none"
    /\ setupOutcome' = "running"
    /\ cmds' = <<>>
    /\ UNCHANGED <<mainRet, cliVars, cstep, clog, cleanupCalls, raised, past>>
    /\ UNCHANGED <<procVars, monVars, rdrVars, cacheVars, httpVars>>

\* an exception leaves setup_camera().  A caller outside the service gets
\* it; in start_webcam_service() the handler of service.py line 26 takes an
\* OSError and returns, anything else ends main()
SetupRaises(kind, exc) ==
    /\ setupFailure' = kind
    /\ setupOutcome' = "raised"
    /\ pc' = [pc EXCEPT ![MAIN] = IF setupRet = "idle" THEN "idle"
                                  ELSE IF exc = "OSError" THEN "exit"
                                  ELSE "crashed"]
    /\ raised' = [raised EXCEPT ![MAIN] =
                    IF setupRet # "idle" /\ exc # "OSError" THEN exc ELSE @]

\* lines 35, 36 and 38
PkillArgs == <<"sudo", "pkill", "-9", "gphoto2">>
RmmodArgs == <<"sudo", "rmmod", "v4l2loopback">>
ModprobeArgs == <<"sudo", "modprobe", "v4l2loopback", "devices=1", "exclusive_caps=1">>

\* a bug: modprobe is run with check=False
ModprobeUnchecked == FALSE

\* line 39: check=True
ModprobeCheck == TRUE

\* lines 35-37: the three subprocess.run() calls.  Each may raise OSError
\* (the command cannot be run); a command that runs and fails is ignored at
\* lines 35 and 36 (check=False) and raises CalledProcessError at line 37
SetupModule ==
    /\ \/ /\ pc[MAIN] = "s35"
          /\ cmds' = Append(cmds, PkillArgs)
          /\ \/ /\ procState' = KillByName(procState)
                /\ pc' = [pc EXCEPT ![MAIN] = "s36"]
                /\ UNCHANGED <<moduleLoaded, raised, setupFailure, setupOutcome>>
             \/ /\ SetupRaises("pkill", "OSError")
                /\ UNCHANGED <<procState, moduleLoaded>>
       \/ /\ pc[MAIN] = "s36"
          /\ cmds' = Append(cmds, RmmodArgs)
          /\ \/ /\ moduleLoaded' \in {FALSE, moduleLoaded}
                /\ pc' = [pc EXCEPT ![MAIN] = "s37"]
                /\ UNCHANGED <<procState, raised, setupFailure, setupOutcome>>
             \/ /\ SetupRaises("unload", "OSError")
                /\ UNCHANGED <<procState, moduleLoaded>>
       \/ /\ pc[MAIN] = "s37"
          /\ cmds' = Append(cmds, ModprobeArgs)
          /\ \/ /\ moduleLoaded' = TRUE
                /\ pc' = [pc EXCEPT ![MAIN] = "s43"]
                /\ UNCHANGED <<procState, raised, setupFailure, setupOutcome>>
             \/ /\ \E exc \in {"CalledProcessError", "OSError"} :
                    IF exc = "CalledProcessError" /\ ~ModprobeCheck
                    THEN /\ setupFailure' = "module"
                         /\ pc' = [pc EXCEPT ![MAIN] = "s43"]
                         /\ UNCHANGED <<raised, setupOutcome>>
                    ELSE SetupRaises("module", exc)
                /\ UNCHANGED <<procState, moduleLoaded>>
    /\ UNCHANGED <<gphoto2_process, ffmpeg_process, proc, GPHOTO2_PATH, FFMPEG_PATH>>
    /\ UNCHANGED <<setups, mainRet, setupRet, cliVars, cstep, clog, cleanupCalls, past>>
    /\ UNCHANGED <<monVars, rdrVars, cacheVars, httpVars>>

\* lines 69-71: the handler logs and calls cleanup_camera()
SetupHandler(kind) ==
    /\ setupFailure' = kind
    /\ mainRet' = "s71"
    /\ EnterCleanup(MAIN)
    /\ UNCHANGED <<setups, setupRet, setupOutcome, cmds, cliVars>>

\* lines 43-47: Popen of gphoto2 gives a process or raises
SetupLaunchSource ==
    /\ pc[MAIN] = "s43"
    /\ \/ LET p == SourceOf(setups) IN
          /\ gphoto2_process' = p
          /\ procState' = [procState EXCEPT ![p] = "running"]
          /\ proc' = [proc EXCEPT ![p] = Gphoto2Popen(GPHOTO2_PATH)]
          /\ pc' = [pc EXCEPT ![MAIN] = "s50"]
          /\ UNCHANGED <<mainVars, cstep, clog, cleanupCalls, raised, past>>
       \/ /\ SetupHandler("source")
          /\ UNCHANGED <<gphoto2_process, procState, proc>>
    /\ UNCHANGED <<ffmpeg_process, moduleLoaded, GPHOTO2_PATH, FFMPEG_PATH>>
    /\ UNCHANGED <<monVars, rdrVars, cacheVars, httpVars>>

\* lines 50-64: Popen of ffmpeg gives a process or raises
SetupLaunchConverter ==
    /\ pc[MAIN] = "s50"
    /\ \/ LET p == ConverterOf(setups) IN
          /\ ffmpeg_process' = p
          /\ procState' = [procState EXCEPT ![p] = "running"]
          /\ proc' = [proc EXCEPT ![p] = FfmpegPopen(FFMPEG_PATH, gphoto2_process)]
          /\ pc' = [pc EXCEPT ![MAIN] = "s67"]
          /\ UNCHANGED <<mainVars, cstep, clog, cleanupCalls, raised, past>>
       \/ /\ SetupHandler("converter")
          /\ UNCHANGED <<ffmpeg_process, procState, proc>>
    /\ UNCHANGED <<gphoto2_process, moduleLoaded, GPHOTO2_PATH, FFMPEG_PATH>>
    /\ UNCHANGED <<monVars, rdrVars, cacheVars, httpVars>>

\* a bug: both threads are given monitor_ffmpeg_output
MonitorTargetSame(at) == "monitor_ffmpeg_output"

\* the target of the thread started at line 67 and at line 68
MonitorTarget(at) ==
    IF at = "s67" THEN "monitor_ffmpeg_output" ELSE "monitor_gphoto_output"

\* lines 67-68: each Thread(...).start() starts a monitor or raises; after
\* line 68 setup_camera() returns
SetupStartMonitor ==
    /\ pc[MAIN] \in {"s67", "s68"}
    /\ \/ LET fn == MonitorTarget(pc[MAIN])
          IN  /\ pc' = [pc EXCEPT ![<<fn, setups>>] = "watch",
                                  ![MAIN] = IF pc[MAIN] = "s67" THEN "s68" ELSE setupRet]
              /\ setupOutcome' = IF pc[MAIN] = "s68" THEN "returned" ELSE setupOutcome
              /\ UNCHANGED <<setups, mainRet, setupRet, setupFailure, cmds, cliVars>>
              /\ UNCHANGED <<cstep, clog, cleanupCalls, raised, past>>
       \/ SetupHandler("thread")
    /\ UNCHANGED <<procVars, monVars, rdrVars, cacheVars, httpVars>>

\* line 71 is the last statement: setup_camera() returns None
SetupReturn ==
    /\ pc[MAIN] = "s71"
    /\ pc' = [pc EXCEPT ![MAIN] = setupRet]
    /\ setupOutcome' = "returned"
    /\ UNCHANGED <<setups, mainRet, setupRet, setupFailure, cmds, cliVars>>
    /\ UNCHANGED <<cstep, clog, cleanupCalls, raised, past>>
    /\ UNCHANGED <<procVars, monVars, rdrVars, cacheVars, httpVars>>

(***************************************************************************)
(* start_webcam_service(), service.py lines 19-27, run by the main thread. *)
(*   sv22  camera.setup_camera()                                           *)
(*   sv23  kill_existing_processes(port)                                   *)
(*   sv24  threading.Thread(target=camera.frame_reader).start()            *)
(*   sv25  web.app.run(...)                                                *)
(***************************************************************************)
ServiceStart ==
    /\ pc[MAIN] = "sv22"
    /\ SetupCall("sv23")

\* line 23: acts on other processes' sockets only
ServiceKillExisting ==
    /\ pc[MAIN] = "sv23"
    /\ pc' = [pc EXCEPT ![MAIN] = "sv24"]
    /\ UNCHANGED <<cstep, clog, cleanupCalls, raised, past>>
    /\ UNCHANGED <<procVars, monVars, rdrVars, cacheVars, httpVars, mainVars>>

\* line 24: the frame reader thread is started
ServiceStartReader ==
    /\ pc[MAIN] = "sv24"
    /\ pc' = [pc EXCEPT ![MAIN] = "sv25", ![READER] = "start"]
    /\ UNCHANGED <<cstep, clog, cleanupCalls, raised, past>>
    /\ UNCHANGED <<procVars, monVars, rdrVars, cacheVars, httpVars, mainVars>>

\* lines 25-27: app.run() serves, or raises OSError, which is logged
ServiceRun ==
    /\ pc[MAIN] = "sv25"
    /\ \E r \in {"serving", "exit"} : pc' = [pc EXCEPT ![MAIN] = r]
    /\ UNCHANGED <<cstep, clog, cleanupCalls, raised, past>>
    /\ UNCHANGED <<procVars, monVars, rdrVars, cacheVars, httpVars, mainVars>>

(***************************************************************************)
(* main(), service.py lines 111-176, from the  if  of line 155.            *)
(*   m155        the if / elif chain                                       *)
(*   m163        install_service(...)                                      *)
(*   m166, m167  kill_existing_processes(port), uninstall_service()        *)
(*   m171, m172  kill_existing_processes(port), start_webcam_service(port) *)
(*   m175, m176  kill_existing_processes(port), camera.cleanup_camera()    *)
(*   u73         uninstall_service() after its cleanup_camera() call       *)
(*   exit1       sys.exit(1) of line 161                                   *)
(*   mEnd        main() has returned                                       *)
(* Of the command line, args holds the four flags, the port, ids (both     *)
(* --vendor and --product given) and bare (argv is None and sys.argv has   *)
(* length 1: the program was run with no argument at all).                 *)
(***************************************************************************)
\* line 115
DefaultPort == 9007
Ports == {DefaultPort, 1234}

CommandLines ==
    {a \in [install : BOOLEAN, uninstall : BOOLEAN, start : BOOLEAN, stop : BOOLEAN,
            port : Ports, ids : BOOLEAN, bare : BOOLEAN] :
        a.bare => /\ ~a.install /\ ~a.uninstall /\ ~a.start /\ ~a.stop
                  /\ ~a.ids /\ a.port = DefaultPort}

MainPcs == {"m155", "m163", "m166", "m167", "m171", "m172", "m175", "m176"}

\* a bug: --start is tested before --uninstall
BranchStartFirst(a) ==
    IF a.install THEN "install"
    ELSE IF a.start \/ a.bare THEN "start"
    ELSE IF a.uninstall THEN "uninstall"
    ELSE IF a.stop THEN "stop"
    ELSE "none"

\* lines 155, 165, 169, 173
Branch(a) ==
    IF a.install THEN "install"
    ELSE IF a.uninstall THEN "uninstall"
    ELSE IF a.start \/ a.bare THEN "start"
    ELSE IF a.stop THEN "stop"
    ELSE "none"

\* lines 155-161: the branch is chosen; --install without both ids asks
\* auto_detect_camera_ids(), and exits with status 1 when it finds none
MainDispatch ==
    /\ pc[MAIN] = "m155"
    /\ \E detected \in BOOLEAN :
        LET b == Branch(args) IN
        pc' = [pc EXCEPT ![MAIN] =
                    IF b = "install"
                    THEN (IF args.ids \/ detected THEN "m163" ELSE "exit1")
                    ELSE IF b = "uninstall" THEN "m166"
                    ELSE IF b = "start" THEN "m171"
                    ELSE IF b = "stop" THEN "m175"
                    ELSE "mEnd"]
    /\ UNCHANGED <<cstep, clog, cleanupCalls, raised, past>>
    /\ UNCHANGED <<procVars, monVars, rdrVars, cacheVars, httpVars, mainVars>>

\* lines 166, 171, 175: kill_existing_processes(args.port), which acts on
\* other processes' sockets only
MainKillExisting ==
    /\ pc[MAIN] \in {"m166", "m171", "m175"}
    /\ calls' = Append(calls, <<"kill_existing_processes", args.port>>)
    /\ pc' = [pc EXCEPT ![MAIN] = IF @ = "m166" THEN "m167"
                                  ELSE IF @ = "m171" THEN "m172" ELSE "m176"]
    /\ UNCHANGED <<setups, mainRet, setupRet, setupFailure, setupOutcome, cmds, args>>
    /\ UNCHANGED <<cstep, clog, cleanupCalls, raised, past>>
    /\ UNCHANGED <<procVars, monVars, rdrVars, cacheVars, httpVars>>

\* lines 162-164: install_service() writes the udev rule, and handles what
\* that raises (lines 56-66)
MainInstall ==
    /\ pc[MAIN] = "m163"
    /\ calls' = Append(calls, <<"install_service">>)
    /\ pc' = [pc EXCEPT ![MAIN] = "mEnd"]
    /\ UNCHANGED <<setups, mainRet, setupRet, setupFailure, setupOutcome, cmds, args>>
    /\ UNCHANGED <<cstep, clog, cleanupCalls, raised, past>>
    /\ UNCHANGED <<procVars, monVars, rdrVars, cacheVars, httpVars>>

\* line 167: uninstall_service(), whose first call is cleanup_camera()
\* (line 72)
MainUninstall ==
    /\ pc[MAIN] = "m167"
    /\ calls' = Append(calls, <<"uninstall_service">>)
    /\ mainRet' = "u73"
    /\ EnterCleanup(MAIN)
    /\ UNCHANGED <<setups, setupRet, setupFailure, setupOutcome, cmds, args>>
    /\ UNCHANGED <<procVars, monVars, rdrVars, cacheVars, httpVars>>

\* lines 73-86, 168: the udev rule is removed, uninstall_service() and
\* main() return
UninstallRest ==
    /\ pc[MAIN] = "u73"
    /\ pc' = [pc EXCEPT ![MAIN] = "mEnd"]
    /\ UNCHANGED <<cstep, clog, cleanupCalls, raised, past>>
    /\ UNCHANGED <<procVars, monVars, rdrVars, cacheVars, httpVars, mainVars>>

\* line 172: start_webcam_service(args.port)
MainStart ==
    /\ pc[MAIN] = "m172"
    /\ calls' = Append(calls, <<"start_webcam_service", args.port>>)
    /\ pc' = [pc EXCEPT ![MAIN] = "sv22"]
    /\ UNCHANGED <<setups, mainRet, setupRet, setupFailure, setupOutcome, cmds, args>>
    /\ UNCHANGED <<cstep, clog, cleanupCalls, raised, past>>
    /\ UNCHANGED <<procVars, monVars, rdrVars, cacheVars, httpVars>>

\* line 176: camera.cleanup_camera(), after which main() returns
MainStop ==
    /\ pc[MAIN] = "m176"
    /\ calls' = Append(calls, <<"cleanup_camera">>)
    /\ mainRet' = "mEnd"
    /\ EnterCleanup(MAIN)
    /\ UNCHANGED <<setups, setupRet, setupFailure, setupOutcome, cmds, args>>
    /\ UNCHANGED <<procVars, monVars, rdrVars, cacheVars, httpVars>>

(***************************************************************************)
(* The wall clock, and the HTTP handlers of web.py.  A handler reads the   *)
(* two globals of the frame cache one at a time; each read is one step.    *)
(* Of the request being served, req records:                               *)
(*   arrived, arrTime, arrFrame   the clock, frame_buffer_time and         *)
(*                     frame_buffer when it arrived                        *)
(*   time, testedAt    the timestamp image() tested at line 48 and the     *)
(*                     clock then; the timestamp status() took the age of  *)
(*                     at line 60 and the clock it took it at              *)
(*   uptime, frame_age, frame_available   the body status() returned       *)
(*   ret               what imencode returned: "ok" or "fail"              *)
(*   frame             the frame it served or reported                     *)
(*   resp, mimetype    the response                                        *)
(***************************************************************************)
Tick ==
    /\ now < T0 + MaxTicks
    /\ now' = now + 1
    /\ UNCHANGED <<req, start_time, part>>
    /\ UNCHANGED <<procVars, thrVars, monVars, rdrVars, cacheVars, mainVars>>

\* "frame_age": None in the body of /status; an age a is <<a>>
NoAge == <<>>

Idle ==
    [kind |-> "none", at |-> "idle", arrived |-> None, arrTime |-> None,
     frame |-> None, time |-> None, testedAt |-> None, ret |-> "none",
     resp |-> 0, mimetype |-> "",
     arrFrame |-> None, uptime |-> None, frame_age |-> NoAge,
     frame_available |-> FALSE]

\* Python truth value of frame_buffer_time: None and 0 are false
Truthy(t) == t # None /\ t # 0

\* a bug: the age of the frame is not tested
FreshAlways(t) == TRUE

\* a bug: a frame exactly 5 old is served
FreshInclusive(t) == t >= now - StaleAfter

\* web.py line 48
Fresh(t) == t > now - StaleAfter

\* a request arrives at /image or /status
Request ==
    /\ req.at \in {"idle", "done"}
    /\ \E k \in {"image", "status"} :
        req' = [Idle EXCEPT !.kind = k, !.at = IF k = "image" THEN "i1" ELSE "s1",
                            !.arrived = now, !.arrTime = frame_buffer_time,
                            !.arrFrame = frame_buffer]
    /\ UNCHANGED <<now, start_time, part>>
    /\ UNCHANGED <<procVars, thrVars, monVars, rdrVars, cacheVars, mainVars>>

\* a bug: the handler falls through and answers with an empty body
EmptyOk(r) == [r EXCEPT !.at = "done", !.resp = 200, !.mimetype = "text/html"]

\* web.py line 53: abort(404)
NotFound(r) == [r EXCEPT !.at = "done", !.resp = 404, !.mimetype = "text/html"]

\* image(), web.py lines 45-53
\*   i1  line 46: frame_buffer is not None
\*   i2  line 47: frame_buffer_time (truth value)
\*   i3  line 48: frame_buffer_time > time.time() - 5
\*   i4  lines 50-52: imencode(frame_buffer), Response or 404
Image ==
    /\ req.kind = "image"
    /\ \/ /\ req.at = "i1"
          /\ req' = IF frame_buffer # None THEN [req EXCEPT !.at = "i2"]
                     ELSE NotFound(req)
       \/ /\ req.at = "i2"
          /\ req' = IF Truthy(frame_buffer_time) THEN [req EXCEPT !.at = "i3"]
                     ELSE NotFound(req)
       \/ /\ req.at = "i3"
          /\ LET r == [req EXCEPT !.time = frame_buffer_time, !.testedAt = now]
             IN  req' = IF Fresh(frame_buffer_time)
                        THEN [r EXCEPT !.at = "i4"]
                        ELSE NotFound(r)
       \/ /\ req.at = "i4"
          /\ \E ret \in BOOLEAN :
                req' = IF ret
                       THEN [req EXCEPT !.at = "done", !.resp = 200, !.ret = "ok",
                                        !.frame = frame_buffer,
                                        !.mimetype = "image/jpeg"]
                       ELSE NotFound([req EXCEPT !.ret = "fail"])
    /\ UNCHANGED <<now, start_time, part>>
    /\ UNCHANGED <<procVars, thrVars, monVars, rdrVars, cacheVars, mainVars>>

\* status(), web.py lines 59-68, in the order Python evaluates it
\*   s1  line 61: frame_buffer_time is not None
\*   s2  line 60: time.time()
\*   s3  line 60: ... - frame_buffer_time; with None at line 61, age = None
\*   s4  line 65: time.time() - service.start_time
\*   s5  line 67: frame_buffer is not None; the dict is returned
Status ==
    /\ req.kind = "status"
    /\ \/ /\ req.at = "s1"
          /\ req' = [req EXCEPT !.at = IF frame_buffer_time # None THEN "s2" ELSE "s4"]
       \/ /\ req.at = "s2"
          /\ req' = [req EXCEPT !.at = "s3", !.testedAt = now]
       \/ /\ req.at = "s3"
          /\ req' = [req EXCEPT !.at = "s4", !.time = frame_buffer_time,
                                 !.frame_age = <<req.testedAt - frame_buffer_time>>]
       \/ /\ req.at = "s4"
          /\ req' = [req EXCEPT !.at = "s5", !.uptime = now - start_time]
       \/ /\ req.at = "s5"
          /\ req' = [req EXCEPT !.at = "done", !.resp = 200, !.frame = frame_buffer,
                                 !.frame_available = (frame_buffer # None),
                                 !.mimetype = "application/json"]
    /\ UNCHANGED <<now, start_time, part>>
    /\ UNCHANGED <<procVars, thrVars, monVars, rdrVars, cacheVars, mainVars>>

(***************************************************************************)
(* States the program is in when a part of it starts.                      *)
(***************************************************************************)
\* what the Popen calls were given when g and f are the processes launched
PopenTable(g, f) ==
    [p \in ProcIds |-> IF p = g THEN Gphoto2Popen(GPHOTO2_PATH)
                       ELSE IF p = f THEN FfmpegPopen(FFMPEG_PATH, g)
                       ELSE NoProc]

\* module import: camera.py lines 16-19; no thread but the main thread, which
\* is at mainPc; a is the command line
InitImported(mainPc, a) ==
    /\ gphoto2_process = None /\ ffmpeg_process = None
    /\ frame_buffer = None /\ frame_buffer_time = None
    /\ procState = [p \in ProcIds |-> "unborn"]
    /\ moduleLoaded \in BOOLEAN
    /\ GPHOTO2_PATH \in Gphoto2Paths /\ FFMPEG_PATH \in FfmpegPaths
    /\ proc = PopenTable(None, None)
    /\ setups = 0 /\ setupFailure = "none" /\ setupOutcome = "none"
    /\ pc = [t \in Threads |-> IF t = MAIN THEN mainPc ELSE "off"]
    /\ cstep = [t \in Threads |-> 0]
    /\ clog = [t \in Threads |-> <<>>]
    /\ cleanupCalls = [t \in Threads |-> 0]
    /\ raised = [t \in Threads |-> "none"]
    /\ past = [t \in Threads |-> <<>>]
    /\ mainRet = "idle" /\ setupRet = "idle"
    /\ args = a /\ calls = <<>>
    /\ cmds = <<>>
    /\ nread = [m \in Monitors |-> 0]
    /\ fatalSeen = [m \in Monitors |-> FALSE]
    /\ eofSeen = [m \in Monitors |-> FALSE]
    /\ readAfterFatal = [m \in Monitors |-> FALSE]
    /\ capOpen = FALSE /\ retries = 0 /\ openRun = 0 /\ softRun = 0
    /\ exitReason = "none" /\ released = FALSE /\ attemptAfterHard = FALSE
    /\ nextFrame = 1 /\ pubTime = [f \in 1..MaxFrames |-> None]
    /\ now = T0 /\ start_time = T0
    /\ req = Idle

\* setup_camera() has returned after both Popen calls and both Thread starts
\* (camera.py lines 43-68): both handles set, both processes running, module
\* loaded, both monitors at the top of their loops
InitMonitors ==
    /\ gphoto2_process = GPHOTO2 /\ ffmpeg_process = FFMPEG
    /\ frame_buffer = None /\ frame_buffer_time = None
    /\ procState = [p \in ProcIds |-> IF p \in FirstProcs THEN "running" ELSE "unborn"]
    /\ moduleLoaded = TRUE
    /\ GPHOTO2_PATH = DefaultGphoto2 /\ FFMPEG_PATH = DefaultFfmpeg
    /\ proc = PopenTable(GPHOTO2, FFMPEG)
    /\ setups = 1 /\ setupFailure = "none" /\ setupOutcome = "returned"
    /\ pc = [t \in Threads |-> IF t \in FirstMonitors THEN "watch" ELSE "off"]
    /\ cstep = [t \in Threads |-> 0]
    /\ clog = [t \in Threads |-> <<>>]
    /\ cleanupCalls = [t \in Threads |-> 0]
    /\ raised = [t \in Threads |-> "none"]
    /\ past = [t \in Threads |-> <<>>]
    /\ mainRet = "idle" /\ setupRet = "idle"
    /\ args = NoArgs /\ calls = <<>>
    /\ cmds = <<>>
    /\ nread = [m \in Monitors |-> 0]
    /\ fatalSeen = [m \in Monitors |-> FALSE]
    /\ eofSeen = [m \in Monitors |-> FALSE]
    /\ readAfterFatal = [m \in Monitors |-> FALSE]
    /\ capOpen = FALSE /\ retries = 0 /\ openRun = 0 /\ softRun = 0
    /\ exitReason = "none" /\ released = FALSE /\ attemptAfterHard = FALSE
    /\ nextFrame = 1 /\ pubTime = [f \in 1..MaxFrames |-> None]
    /\ now = T0 /\ start_time = T0
    /\ req = Idle

NextMonitors ==
    \/ \E m \in Monitors : MonitorRead(m)
    \/ \E m \in Monitors : CleanupStep(m)

\* the two monitor threads after a successful setup_camera()
\* the initial states of SpecMonitors
StartMonitors == InitMonitors /\ part = "monitors"

SpecMonitors == StartMonitors /\ [][NextMonitors]_vars

(***************************************************************************)
(* cleanup_camera() called from the main thread: main() --stop             *)
(* (service.py line 176), uninstall_service() (line 72), the SIGINT        *)
(* handler (line 180), and setup_camera()'s own handler (camera.py         *)
(* line 71).                                                               *)
(***************************************************************************)
MainCleanup ==
    /\ pc[MAIN] \in {"idle", "serving"}
    /\ cleanupCalls[MAIN] < MaxCleanups
    /\ mainRet' = pc[MAIN]
    /\ EnterCleanup(MAIN)
    /\ UNCHANGED <<setups, setupRet, setupFailure, setupOutcome, cmds, cliVars>>
    /\ UNCHANGED <<procVars, monVars, rdrVars, cacheVars, httpVars>>

\* the main thread is about to call cleanup_camera() in one of the states it
\* can be in there:
\*   no process was ever started (--stop, --uninstall);
\*   gphoto2 was started and the ffmpeg Popen raised (camera.py line 50-71);
\*   both were started and the monitors wait in readline() (SIGINT while
\*   serving)
InitCleanup ==
    /\ GPHOTO2_PATH = DefaultGphoto2 /\ FFMPEG_PATH = DefaultFfmpeg
    /\ \E hs \in {<<None, None>>, <<GPHOTO2, None>>, <<GPHOTO2, FFMPEG>>} :
        /\ gphoto2_process = hs[1]
        /\ ffmpeg_process = hs[2]
        /\ procState = [p \in ProcIds |-> IF p \in {hs[1], hs[2]} THEN "running"
                                           ELSE "unborn"]
        /\ pc = [t \in Threads |->
                    IF t = MAIN THEN "idle"
                    ELSE IF t \in FirstMonitors /\ hs[2] # None THEN "watch"
                    ELSE "off"]
        \* modprobe (check=True) succeeded before any Popen was reached
        /\ moduleLoaded \in (IF hs[1] = None THEN BOOLEAN ELSE {TRUE})
        /\ proc = PopenTable(hs[1], hs[2])
        /\ setups = (IF hs[1] = None THEN 0 ELSE 1)
        /\ setupFailure = (IF hs[1] # None /\ hs[2] = None THEN "converter" ELSE "none")
        /\ setupOutcome = (IF hs[1] = None THEN "none" ELSE "returned")
    /\ frame_buffer = None /\ frame_buffer_time = None
    /\ cstep = [t \in Threads |-> 0]
    /\ clog = [t \in Threads |-> <<>>]
    /\ cleanupCalls = [t \in Threads |-> 0]
    /\ raised = [t \in Threads |-> "none"]
    /\ past = [t \in Threads |-> <<>>]
    /\ mainRet = "idle" /\ setupRet = "idle"
    /\ args = NoArgs /\ calls = <<>>
    /\ cmds = <<>>
    /\ nread = [m \in Monitors |-> 0]
    /\ fatalSeen = [m \in Monitors |-> FALSE]
    /\ eofSeen = [m \in Monitors |-> FALSE]
    /\ readAfterFatal = [m \in Monitors |-> FALSE]
    /\ capOpen = FALSE /\ retries = 0 /\ openRun = 0 /\ softRun = 0
    /\ exitReason = "none" /\ released = FALSE /\ attemptAfterHard = FALSE
    /\ nextFrame = 1 /\ pubTime = [f \in 1..MaxFrames |-> None]
    /\ now = T0 /\ start_time = T0
    /\ req = Idle

NextCleanup ==
    \/ MainCleanup
    \/ CleanupStep(MAIN)

\* cleanup_camera() called by the main thread, in each state of the handles
\* the initial states of SpecCleanup
StartCleanup == InitCleanup /\ part = "cleanup"

SpecCleanup == StartCleanup /\ [][NextCleanup]_vars

(***************************************************************************)
(* The frame reader thread, started by start_webcam_service()              *)
(* (service.py line 24) after setup_camera() has started both processes.   *)
(***************************************************************************)
InitReader ==
    /\ gphoto2_process = GPHOTO2 /\ ffmpeg_process = FFMPEG
    /\ frame_buffer = None /\ frame_buffer_time = None
    /\ procState = [p \in ProcIds |-> IF p \in FirstProcs THEN "running" ELSE "unborn"]
    /\ moduleLoaded = TRUE
    /\ GPHOTO2_PATH = DefaultGphoto2 /\ FFMPEG_PATH = DefaultFfmpeg
    /\ proc = PopenTable(GPHOTO2, FFMPEG)
    /\ setups = 1 /\ setupFailure = "none" /\ setupOutcome = "returned"
    /\ pc = [t \in Threads |-> IF t \in FirstMonitors THEN "watch"
                                ELSE IF t = READER THEN "start" ELSE "off"]
    /\ cstep = [t \in Threads |-> 0]
    /\ clog = [t \in Threads |-> <<>>]
    /\ cleanupCalls = [t \in Threads |-> 0]
    /\ raised = [t \in Threads |-> "none"]
    /\ past = [t \in Threads |-> <<>>]
    /\ mainRet = "idle" /\ setupRet = "idle"
    /\ args = NoArgs /\ calls = <<>>
    /\ cmds = <<>>
    /\ nread = [m \in Monitors |-> 0]
    /\ fatalSeen = [m \in Monitors |-> FALSE]
    /\ eofSeen = [m \in Monitors |-> FALSE]
    /\ readAfterFatal = [m \in Monitors |-> FALSE]
    /\ capOpen = FALSE /\ retries = 0 /\ openRun = 0 /\ softRun = 0
    /\ exitReason = "none" /\ released = FALSE /\ attemptAfterHard = FALSE
    /\ nextFrame = 1 /\ pubTime = [f \in 1..MaxFrames |-> None]
    /\ now = T0 /\ start_time = T0
    /\ req = Idle

NextReader ==
    \/ ReaderStart
    \/ DeviceLost
    \/ ReaderNotOpened
    \/ ReaderReopen
    \/ ReaderReadFrame
    \/ ReaderStamp
    \/ ReaderReadNothing
    \/ ReaderHardFailure
    \/ ReaderRelease
    \/ CleanupStep(READER)

\* frame_reader() with every behaviour of the device
\* the initial states of SpecReader
StartReader == InitReader /\ part = "reader"

SpecReader == StartReader /\ [][NextReader]_vars

NextCache ==
    \/ ReaderStart
    \/ ReaderReadFrame
    \/ ReaderStamp
    \/ Tick
    \/ Request
    \/ Image
    \/ Status

\* The HTTP handlers and the clock beside frame_reader().  Of the reader
\* only the steps that write the frame cache are taken (the first open, a
\* read that gives a frame, the timestamp); it may stop taking them at any
\* point, which is all a failed open, a read without a frame, or the exit
\* path show to a handler.
\* the initial states of SpecCache
StartCache == InitReader /\ part = "cache"

SpecCache == StartCache /\ [][NextCache]_vars

NextStale ==
    \/ ReaderStart
    \/ ReaderReadFrame
    \/ ReaderStamp
    \/ SubprocessExits
    \/ Tick
    \/ Request
    \/ Image
    \/ Status

\* the same, with gphoto2 or ffmpeg failing at any time: from then on the
\* device is not fed and the reader gets no frame
\* the initial states of SpecStale
StartStale == InitReader /\ part = "stale"

SpecStale == StartStale /\ [][NextStale]_vars

(***************************************************************************)
(* setup_camera() and cleanup_camera() called, in any order, by a caller   *)
(* on the main thread.                                                     *)
(***************************************************************************)
InitSetup == InitImported("idle", NoArgs)

ClientSetup ==
    /\ pc[MAIN] = "idle"
    /\ SetupCall("idle")

NextSetup ==
    \/ ClientSetup
    \/ SetupModule
    \/ SetupLaunchSource
    \/ SetupLaunchConverter
    \/ SetupStartMonitor
    \/ SetupReturn
    \/ MainCleanup
    \/ CleanupStep(MAIN)

\* the initial states of SpecSetup
StartSetup == InitSetup /\ part = "setup"

SpecSetup == StartSetup /\ [][NextSetup]_vars

(***************************************************************************)
(* setup_camera() called again while the monitors of an earlier call run.  *)
(* The processes write no fatal line here, so no monitor calls             *)
(* cleanup_camera().                                                       *)
(***************************************************************************)
RestartRead(m) ==
    /\ MonitorRead(m)
    /\ ~fatalSeen'[m]

NextRestart ==
    \/ ClientSetup
    \/ SetupModule
    \/ SetupLaunchSource
    \/ SetupLaunchConverter
    \/ SetupStartMonitor
    \/ SetupReturn
    \/ CleanupStep(MAIN)
    \/ \E m \in Monitors : RestartRead(m)

\* the initial states of SpecRestart
StartRestart == InitSetup /\ part = "restart"

SpecRestart == StartRestart /\ [][NextRestart]_vars

(***************************************************************************)
(* main() --start: start_webcam_service() from its first statement, with   *)
(* the SIGINT handler (service.py line 180) while it serves.               *)
(***************************************************************************)
InitService == InitImported("sv22", NoArgs)

NextService ==
    \/ ServiceStart
    \/ SetupModule
    \/ SetupLaunchSource
    \/ SetupLaunchConverter
    \/ SetupStartMonitor
    \/ SetupReturn
    \/ CleanupStep(MAIN)
    \/ ServiceKillExisting
    \/ ServiceStartReader
    \/ ServiceRun
    \/ MainCleanup

\* the initial states of SpecService
StartService == InitService /\ part = "service"

SpecService == StartService /\ [][NextService]_vars

(***************************************************************************)
(* main() run with each command line, with all that the branch taken       *)
(* goes on to do.                                                          *)
(***************************************************************************)
InitMain == \E a \in CommandLines : InitImported("m155", a)

NextMain ==
    \/ MainDispatch
    \/ MainKillExisting
    \/ MainInstall
    \/ MainUninstall
    \/ UninstallRest
    \/ MainStart
    \/ MainStop
    \/ ServiceStart
    \/ SetupModule
    \/ SetupLaunchSource
    \/ SetupLaunchConverter
    \/ SetupStartMonitor
    \/ SetupReturn
    \/ CleanupStep(MAIN)
    \/ ServiceKillExisting
    \/ ServiceStartReader
    \/ ServiceRun
    \/ MainCleanup

\* the initial states of SpecMain
StartMain == InitMain /\ part = "main"

SpecMain == StartMain /\ [][NextMain]_vars

(***************************************************************************)
(* Shutdown: the SIGINT handler (service.py line 180) has called           *)
(* cleanup_camera() while the service runs, and both terminate() calls     *)
(* have returned.  The rest of that call runs beside the two monitors and  *)
(* the frame reader.  A process that is not running has closed its stderr, *)
(* so a read of it gives b""; the device is not fed, so no read gives a    *)
(* frame (DeviceFed).                                                      *)
(***************************************************************************)
InitShutdown ==
    /\ gphoto2_process = GPHOTO2 /\ ffmpeg_process = FFMPEG
    /\ frame_buffer = None /\ frame_buffer_time = None
    /\ procState = [p \in ProcIds |-> IF p \in FirstProcs THEN "terminated" ELSE "unborn"]
    /\ moduleLoaded = TRUE
    /\ GPHOTO2_PATH = DefaultGphoto2 /\ FFMPEG_PATH = DefaultFfmpeg
    /\ proc = PopenTable(GPHOTO2, FFMPEG)
    /\ setups = 1 /\ setupFailure = "none" /\ setupOutcome = "returned"
    /\ pc = [t \in Threads |-> IF t \in FirstMonitors THEN "watch"
                                ELSE IF t = READER THEN "start"
                                ELSE IF t = MAIN THEN "cleanup" ELSE "off"]
    /\ cstep = [t \in Threads |-> IF t = MAIN THEN 3 ELSE 0]
    /\ clog = [t \in Threads |-> IF t = MAIN THEN <<<<1, "ok">>, <<2, "ok">>>> ELSE <<>>]
    /\ cleanupCalls = [t \in Threads |-> IF t = MAIN THEN 1 ELSE 0]
    /\ raised = [t \in Threads |-> "none"]
    /\ past = [t \in Threads |-> <<>>]
    /\ mainRet = "serving" /\ setupRet = "sv23"
    /\ args = NoArgs /\ calls = <<>>
    /\ cmds = <<PkillArgs, RmmodArgs, ModprobeArgs>>
    /\ nread = [m \in Monitors |-> 0]
    /\ fatalSeen = [m \in Monitors |-> FALSE]
    /\ eofSeen = [m \in Monitors |-> FALSE]
    /\ readAfterFatal = [m \in Monitors |-> FALSE]
    /\ capOpen = FALSE /\ retries = 0 /\ openRun = 0 /\ softRun = 0
    /\ exitReason = "none" /\ released = FALSE /\ attemptAfterHard = FALSE
    /\ nextFrame = 1 /\ pubTime = [f \in 1..MaxFrames |-> None]
    /\ now = T0 /\ start_time = T0
    /\ req = Idle

\* a monitor's read, where a read from a process that is not running gives
\* the end of the stream
ShutdownRead(m) ==
    /\ MonitorRead(m)
    /\ procState[Watched(m)] # "running" => eofSeen'[m] /\ nread'[m] = nread[m]

\* a step of the reader thread itself; no process feeds the device
\* (DeviceFed is false), so no read gives a frame
ReaderStep ==
    \/ ReaderStart
    \/ ReaderNotOpened
    \/ ReaderReopen
    \/ ReaderReadNothing
    \/ ReaderRelease
    \/ CleanupStep(READER)

NextShutdown ==
    \/ CleanupStep(MAIN)
    \/ \E m \in FirstMonitors : ShutdownRead(m)
    \/ \E m \in FirstMonitors : CleanupStep(m)
    \/ ReaderStep

\* the initial states of SpecShutdown
StartShutdown == InitShutdown /\ part = "shutdown"

\* every thread that can take a step does in the end take one: the threads
\* are scheduled, a read of a closed stream returns, a read of the device
\* returns
SpecShutdown ==
    /\ StartShutdown
    /\ [][NextShutdown]_vars
    /\ WF_vars(CleanupStep(MAIN))
    /\ \A m \in FirstMonitors : WF_vars(ShutdownRead(m)) /\ WF_vars(CleanupStep(m))
    /\ WF_vars(ReaderStep)

(***************************************************************************)
(* The clock frame_reader() stamps a frame with (camera.py line 121) is    *)
(* time.time(), the system's wall clock, not time.monotonic(): it gives a  *)
(* lower value than an earlier call when the system clock has been set     *)
(* back in between (an NTP step, a change of the date).                    *)
(***************************************************************************)
ClockSetBack ==
    /\ \E t \in T0..(now - 1) : now' = t
    /\ UNCHANGED <<req, start_time, part>>
    /\ UNCHANGED <<procVars, thrVars, monVars, rdrVars, cacheVars, mainVars>>

NextClock ==
    \/ ReaderStart
    \/ ReaderReadFrame
    \/ ReaderStamp
    \/ Tick
    \/ ClockSetBack

\* the initial states of SpecClock
StartClock == InitReader /\ part = "clock"

\* the cache-writing steps of frame_reader() beside the wall clock
SpecClock == StartClock /\ [][NextClock]_vars

(***************************************************************************)
(* Every part of the program above: a behaviour is a behaviour of the      *)
(* frame reader, of the HTTP handlers beside the reader, of setup_camera() *)
(* and cleanup_camera() on the main thread, or of the monitors.            *)
(***************************************************************************)
InitParts ==
    \/ part = "reader" /\ InitReader
    \/ part = "cache" /\ InitReader
    \/ part = "setup" /\ InitSetup
    \/ part = "monitors" /\ InitMonitors

NextParts ==
    \/ part = "reader" /\ NextReader
    \/ part = "cache" /\ NextCache
    \/ part = "setup" /\ NextSetup
    \/ part = "monitors" /\ NextMonitors

SpecParts == InitParts /\ [][NextParts]_vars

(***************************************************************************)
(* Properties of the monitors                                              *)
(***************************************************************************)
\* C1: once a monitor has read a line that contains "Invalid data found" or
\* "Could not find the requested device", it has invoked cleanup_camera()
\* exactly once, it is in that call or stopped, and it has read no line
\* after the fatal one.
C1_FatalLineCleansUpOnce ==
    \A m \in Monitors :
        fatalSeen[m] =>
            /\ cleanupCalls[m] = 1
            /\ pc[m] \in {"cleanup", "stopped"}
            /\ ~readAfterFatal[m]

\* C2: while a monitor has read only non-fatal lines it has never invoked
\* cleanup_camera(), and it is watching unless it has read the end of the
\* stream, and stopped exactly when it has.
C2_InfoLinesKeepWatching ==
    \A m \in Monitors :
        ~fatalSeen[m] =>
            /\ cleanupCalls[m] = 0
            /\ pc[m] \in {"watch", "stopped"}
            /\ (pc[m] = "stopped") <=> eofSeen[m]

\* what the monitors do on streams whose every line is valid UTF-8: the two
\* statements above, for a monitor that no undecodable line has ended
MonitorOnDecodableStreams ==
    \A m \in Monitors :
        pc[m] # "crashed" =>
            /\ fatalSeen[m] => /\ cleanupCalls[m] = 1
                               /\ pc[m] \in {"cleanup", "stopped"}
                               /\ ~readAfterFatal[m]
            /\ ~fatalSeen[m] => /\ cleanupCalls[m] = 0
                                /\ (pc[m] = "stopped") <=> eofSeen[m]

(***************************************************************************)
(* Properties of cleanup_camera()                                          *)
(***************************************************************************)
StepsOf(log) == [k \in DOMAIN log |-> log[k][1]]
Called(log, i) == \E k \in DOMAIN log : log[k][1] = i /\ log[k][2] # "none"
Failed(log, i) == \E k \in DOMAIN log : log[k] = <<i, "err">>
InCleanup(t) == pc[t] = "cleanup"
CleanupReturned(t) == cleanupCalls[t] > 0 /\ ~InCleanup(t) /\ pc[t] # "crashed"

\* C10: every cleanup_camera() call runs its four guarded steps in order,
\* whatever steps fail: while it runs it has been through exactly the steps
\* before its position; when it is over it has returned to its caller (no
\* exception escaped) having been through all four, with pkill and rmmod
\* called and terminate() called on every handle that is set.
C10_CleanupRunsEveryStep ==
    \A t \in Threads :
        /\ InCleanup(t) => StepsOf(clog[t]) = [k \in 1..(cstep[t] - 1) |-> k]
        /\ (cleanupCalls[t] > 0 /\ ~InCleanup(t)) =>
            /\ pc[t] = AfterCleanup(t)
            /\ StepsOf(clog[t]) = <<1, 2, 3, 4>>
            /\ Called(clog[t], 3) /\ Called(clog[t], 4)
            /\ gphoto2_process # None => Called(clog[t], 1)
            /\ ffmpeg_process # None => Called(clog[t], 2)

\* a call in which the first terminate() and the pkill both raised has
\* returned, after the later steps were still called
C10_Witness ==
    /\ CleanupReturned(MAIN)
    /\ Failed(clog[MAIN], 1) /\ Failed(clog[MAIN], 3)
    /\ Called(clog[MAIN], 2) /\ Called(clog[MAIN], 4)

\* terminate() was called on the handle of step i and returned
Released(log, i) == \E k \in DOMAIN log : log[k] = <<i, "ok">>

\* thread t has called cleanup_camera()
Invoked(t) == cleanupCalls[t] > 0

ConcurrentCleanupCompletes ==
    \A t1, t2 \in Threads :
        (t1 # t2 /\ Invoked(t1) /\ Invoked(t2)) =>
            /\ pc[t1] # "crashed" /\ pc[t2] # "crashed"
            /\ (CleanupReturned(t1) /\ CleanupReturned(t2)) =>
                    \A i \in CleanupSteps : Called(clog[t1], i) \/ Called(clog[t2], i)

\* an earlier cleanup_camera() call of the main thread returned with every
\* step done, and the pipeline is as that call left it
AfterCompletedCleanup ==
    /\ past[MAIN] # <<>>
    /\ past[MAIN][1].clean
    /\ PipelineState = past[MAIN][1].state

Launched(p) == procState[p] # "unborn"

\* C13: in every setup_camera() call gphoto2 is launched before ffmpeg;
\* ffmpeg is launched with the stdout of that call's gphoto2 as its stdin;
\* both are launched with the configured path followed by the fixed
\* arguments; and a monitor is started only when both have been launched.
C13_SetupLaunchOrder ==
    \A k \in 1..MaxSetups :
        LET g == SourceOf(k)
            f == ConverterOf(k)
        IN  /\ Launched(f) => Launched(g)
            /\ Launched(g) =>
                    proc[g].argv = <<GPHOTO2_PATH, "--stdout", "--capture-movie">>
            /\ Launched(f) =>
                    /\ proc[f].stdin = g
                    /\ proc[f].argv = <<FFMPEG_PATH, "-i", "-", "-pix_fmt", "yuv420p",
                                        "-f", "v4l2", "/dev/video0">>
            /\ \A fn \in MonitorFns :
                    pc[<<fn, k>>] # "off" => (Launched(g) /\ Launched(f))

\* a second setup_camera() call, with configured paths, has returned with
\* both processes launched and both monitors started
C13_Witness ==
    /\ setups = 2 /\ setupOutcome = "returned" /\ setupFailure = "none"
    /\ GPHOTO2_PATH = "/opt/gphoto2" /\ FFMPEG_PATH = "/opt/ffmpeg"
    /\ procState[SourceOf(2)] = "running" /\ procState[ConverterOf(2)] = "running"
    /\ \A fn \in MonitorFns : pc[<<fn, 2>>] = "watch"

\* C14: the frame reader thread exists only if setup_camera() has returned
\* with no launch failed.
C14_ReaderOnlyAfterSetupSucceeded ==
    pc[READER] # "off" => (setupOutcome = "returned" /\ setupFailure = "none")

\* the kinds of failure of setup_camera() the contract names: the modprobe
\* command, the gphoto2 launch, the ffmpeg launch
SetupFailureKinds == {"module", "source", "converter"}

\* C15: a setup_camera() call in which the modprobe command or a launch failed
\* ends only from line 71, after the cleanup_camera() call of its handler
\* has returned.
C15_SetupFailureCleansUp ==
    [][(setupOutcome = "running" /\ setupOutcome' # "running"
            /\ setupFailure' \in SetupFailureKinds)
        => pc[MAIN] = "s71"]_vars

\* C16: a setup_camera() call in which the modprobe command or a launch failed
\* ends with an exception for its caller.
C16_SetupFailureReported ==
    (setupFailure \in SetupFailureKinds /\ setupOutcome # "running")
        => setupOutcome = "raised"

\* C17: whenever no setup_camera() call is running and both handles are
\* set, the stdin of the ffmpeg process held is the stdout of the gphoto2
\* process held.
C17_ConverterReadsHeldSource ==
    (pc[MAIN] = "idle" /\ gphoto2_process # None /\ ffmpeg_process # None)
        => proc[ffmpeg_process].stdin = gphoto2_process

\* what does hold: the stdin of every ffmpeg process is the stdout of the
\* gphoto2 process of the same setup_camera() call
ConverterReadsOwnSource ==
    \A k \in 1..MaxSetups :
        Launched(ConverterOf(k)) => proc[ConverterOf(k)].stdin = SourceOf(k)

\* the monitors the k-th setup_camera() call has started
StartedBy(k) == {m \in Monitors : m[2] = k /\ pc[m] # "off"}

\* the latest setup_camera() call has returned with nothing failed
SetupSucceeded == setups > 0 /\ setupOutcome = "returned" /\ setupFailure = "none"

\* C25: a setup_camera() call that has returned with nothing failed has
\* started two monitors, one that reads the stderr of the gphoto2 process it
\* launched and one that reads the stderr of the ffmpeg process it launched;
\* a call in which the gphoto2 or the ffmpeg launch failed has started none.
C25_MonitorPerProcess ==
    /\ SetupSucceeded =>
            /\ Cardinality(StartedBy(setups)) = 2
            /\ \E m \in StartedBy(setups) : Watched(m) = SourceOf(setups)
            /\ \E m \in StartedBy(setups) : Watched(m) = ConverterOf(setups)
    /\ setupFailure \in {"source", "converter"} => StartedBy(setups) = {}

\* a first setup_camera() call has started its two monitors; in a second
\* call gphoto2 was launched, the ffmpeg launch failed, and the call has
\* returned having started none
C25_Witness ==
    /\ setups = 2 /\ setupFailure = "converter" /\ setupOutcome = "returned"
    /\ Launched(SourceOf(2)) /\ ~Launched(ConverterOf(2))
    /\ Cardinality(StartedBy(1)) = 2 /\ StartedBy(2) = {}

\* a command that unloads the loopback module; one that loads it with one
\* device
IsUnload(c) == c[2] = "rmmod" /\ c[3] = "v4l2loopback"
IsReload(c) ==
    /\ c[2] = "modprobe" /\ c[3] = "v4l2loopback"
    /\ \E i \in DOMAIN c : c[i] = "devices=1"

\* C24: when the gphoto2 process of a setup_camera() call has been
\* launched, that call has run the rmmod command and after it the modprobe
\* command with devices=1; and in a call whose modprobe command failed
\* neither process is launched and neither monitor is started.
C24_ModuleReloadedBeforeLaunch ==
    setups > 0 =>
        LET g == SourceOf(setups)
            f == ConverterOf(setups)
        IN  /\ Launched(g) =>
                    \E i, j \in DOMAIN cmds :
                        i < j /\ IsUnload(cmds[i]) /\ IsReload(cmds[j])
            /\ setupFailure = "module" =>
                    /\ ~Launched(g) /\ ~Launched(f)
                    /\ \A fn \in MonitorFns : pc[<<fn, setups>>] = "off"

\* the modprobe command of a second setup_camera() call has failed, the call
\* is over, and the processes and monitors are those of the first call
C24_Witness ==
    /\ setups = 2 /\ setupFailure = "module" /\ setupOutcome = "raised"
    /\ Len(cmds) = 3
    /\ Launched(SourceOf(1)) /\ Launched(ConverterOf(1))
    /\ ~Launched(SourceOf(2)) /\ ~Launched(ConverterOf(2))
    /\ \A fn \in MonitorFns : pc[<<fn, 1>>] = "watch" /\ pc[<<fn, 2>>] = "off"

(***************************************************************************)
(* Properties of cleanup_camera() from main()                              *)
(***************************************************************************)
NoHandles == gphoto2_process = None /\ ffmpeg_process = None

\* the outcomes logged so far for steps 1 and 2 are "not called", those for
\* steps 3 and 4 are those of a call that was made
AbsentHandlesLog(log) ==
    \A k \in DOMAIN log :
        /\ log[k][1] = k
        /\ log[k][2] = "none" <=> k \in {1, 2}

\* The pipes of a Popen (stdout and stderr of gphoto2, stderr of ffmpeg:
\* camera.py lines 45-46 and 63) are open in this process from the launch
\* on: camera.py has no close(), wait() or communicate() call, and no
\* statement sets either global back to None.
StreamsOpen(p) == procState[p] # "unborn"

Held == {gphoto2_process, ffmpeg_process} \ {None}

\* C30: once a cleanup_camera() call of the main thread has returned, every
\* process it was called on has been sent termination and the supervisor
\* holds no handle whose streams are open.
C30_ProcessesDestroyed ==
    CleanupReturned(MAIN) =>
        \A p \in Held : procState[p] # "running" /\ ~StreamsOpen(p)

\* what holds: after a call in which no step raised, no process held is
\* running
TerminationSentByCleanCleanup ==
    (CleanupReturned(MAIN) /\ AllDone(clog[MAIN])) =>
        \A p \in Held : procState[p] \in {"terminated", "killed"}

\* a cleanup_camera() call has returned with no step raised, and both
\* globals still refer to the Popen objects of the terminated processes
HandlesKeptAfterCleanup ==
    /\ CleanupReturned(MAIN) /\ AllDone(clog[MAIN])
    /\ gphoto2_process = GPHOTO2 /\ ffmpeg_process = FFMPEG
    /\ procState[GPHOTO2] = "killed" /\ procState[FFMPEG] = "terminated"

\* C29: a cleanup_camera() call of the main thread made while both handles
\* are None calls neither terminate(), lets no exception out, and runs the
\* pkill step and then the rmmod step before it returns.
C29_CleanupWithoutProcesses ==
    (NoHandles /\ cleanupCalls[MAIN] > 0) =>
        /\ AbsentHandlesLog(clog[MAIN])
        /\ pc[MAIN] # "crashed" /\ raised[MAIN] = "none"
        /\ ~InCleanup(MAIN) => Len(clog[MAIN]) = 4
        /\ \A p \in ProcIds : procState[p] = "unborn"

\* main(["--stop"]) is over: its cleanup_camera() call skipped both
\* terminate steps and ran pkill and rmmod
C29_Witness ==
    /\ args.stop /\ pc[MAIN] = "mEnd" /\ NoHandles
    /\ clog[MAIN] = <<<<1, "none">>, <<2, "none">>, <<3, "ok">>, <<4, "ok">>>>
    /\ ~moduleLoaded

(***************************************************************************)
(* Properties of the monitors beside setup_camera()                        *)
(***************************************************************************)
\* the process the setup_camera() call that started monitor m launched for
\* m's function
OwnProcess(m) ==
    IF m[1] = "monitor_ffmpeg_output" THEN ConverterOf(m[2]) ELSE SourceOf(m[2])

\* this step is an iteration of monitor m's loop: a readline()
MonitorReads(m) ==
    /\ pc[m] = "watch"
    /\ nread'[m] # nread[m] \/ eofSeen'[m] # eofSeen[m] \/ pc'[m] # pc[m]

\* C28: every read a monitor makes is a read of the stderr of the process
\* it was started for (so no two monitors ever read the same stream), also
\* when setup_camera() is called again while it is watching.
C28_MonitorReadsOwnStream ==
    [][\A m \in Monitors : MonitorReads(m) => Watched(m) = OwnProcess(m)]_vars

\* what holds: until setup_camera() is called a second time, every read is
\* a read of the monitor's own process
MonitorReadsOwnStreamUntilRestart ==
    [][\A m \in Monitors : MonitorReads(m) /\ setups = 1 => Watched(m) = OwnProcess(m)]_vars

\* a monitor of the first call and the monitor of the second call for the
\* same function are both watching: both read the second call's process
TwoMonitorsOneStream ==
    \E m1, m2 \in Monitors :
        /\ m1 # m2 /\ pc[m1] = "watch" /\ pc[m2] = "watch"
        /\ Watched(m1) = Watched(m2)

(***************************************************************************)
(* Properties of shutdown                                                  *)
(***************************************************************************)
\* a cleanup_camera() call of the main thread has left neither process held
\* running
PipelineTerminated ==
    /\ cleanupCalls[MAIN] > 0
    /\ gphoto2_process # None /\ procState[gphoto2_process] # "running"
    /\ ffmpeg_process # None /\ procState[ffmpeg_process] # "running"

AllEnded ==
    /\ \A m \in FirstMonitors : pc[m] = "stopped"
    /\ pc[READER] \in {"done", "crashed"}

\* C27: once a cleanup_camera() call of the main thread has terminated both
\* processes, every monitor that is watching comes to be stopped and the
\* frame reader comes to an end, by their own steps (nothing else acts on
\* them).
C27_LoopsEndAfterCleanup ==
    (PipelineTerminated /\ \A m \in FirstMonitors : pc[m] = "watch") ~> AllEnded

\* both monitors have stopped at the end of their streams and the reader
\* has ended after more than 500 reads without a frame
C27_Witness ==
    /\ PipelineTerminated /\ CleanupReturned(MAIN)
    /\ \A m \in FirstMonitors : pc[m] = "stopped" /\ eofSeen[m]
    /\ pc[READER] = "done" /\ exitReason = "read" /\ softRun > ReadRetryLimit

(***************************************************************************)
(* Properties of main()                                                    *)
(***************************************************************************)
\* main() has made every call of the branch it took (or has exited)
BranchDone == pc[MAIN] \notin MainPcs

Kill == <<"kill_existing_processes", args.port>>

\* the calls of main() other than kill_existing_processes()
ActionCalls == SelectSeq(calls, LAMBDA c : c[1] # "kill_existing_processes")

\* C23 as stated: every invocation of main() makes exactly one of the four
\* action calls; with --install it calls install_service() and nothing
\* else; else with --uninstall, kill_existing_processes(port) then
\* uninstall_service(); else with --start, kill_existing_processes(port)
\* then start_webcam_service(port); else with --stop,
\* kill_existing_processes(port) then cleanup_camera().
C23_ExactlyOneAction ==
    BranchDone =>
        /\ Len(ActionCalls) = 1
        /\ args.install => calls = << <<"install_service">> >>
        /\ (~args.install /\ args.uninstall)
                => calls = <<Kill, <<"uninstall_service">> >>
        /\ (~args.install /\ ~args.uninstall /\ args.start)
                => calls = <<Kill, <<"start_webcam_service", args.port>> >>
        /\ (~args.install /\ ~args.uninstall /\ ~args.start /\ args.stop)
                => calls = <<Kill, <<"cleanup_camera">> >>

\* C23 amended: every invocation of main() makes at most one of the four
\* action calls, chosen with priority install > uninstall > start > stop.
\* With --install it never calls kill_existing_processes() and calls
\* install_service(), unless it exits with status 1, which it does only
\* when --vendor and --product are not both given; the other three flags
\* are as stated; with no flag it starts the service when the program was
\* given no argument at all, and else makes no call.
C23_AtMostOneAction ==
    BranchDone =>
        /\ Len(ActionCalls) <= 1
        /\ args.install =>
                /\ calls = IF pc[MAIN] = "exit1" THEN <<>>
                           ELSE << <<"install_service">> >>
                /\ pc[MAIN] = "exit1" => ~args.ids
        /\ ~args.install => pc[MAIN] # "exit1"
        /\ (~args.install /\ args.uninstall)
                => calls = <<Kill, <<"uninstall_service">> >>
        /\ (~args.install /\ ~args.uninstall /\ (args.start \/ args.bare))
                => calls = <<Kill, <<"start_webcam_service", args.port>> >>
        /\ (~args.install /\ ~args.uninstall /\ ~args.start /\ args.stop)
                => calls = <<Kill, <<"cleanup_camera">> >>
        /\ (~args.install /\ ~args.uninstall /\ ~args.start /\ ~args.stop
                /\ ~args.bare) => calls = <<>>

\* main() was given --uninstall, --start and --stop together with a port,
\* and has returned after the two calls of the --uninstall branch
C23_Witness ==
    /\ ~args.install /\ args.uninstall /\ args.start /\ args.stop
    /\ args.port = 1234
    /\ pc[MAIN] = "mEnd"
    /\ calls = << <<"kill_existing_processes", 1234>>, <<"uninstall_service">> >>

(***************************************************************************)
(* Properties of the frame cache                                           *)
(***************************************************************************)
\* the (frame, timestamp) pair a finished request used was published together
PairPublishedTogether(r) ==
    IF r.frame = None THEN r.time = None ELSE pubTime[r.frame] = r.time

\* C3: the frame a finished /image request served and the timestamp it
\* tested, and the frame and timestamp a finished /status request reported,
\* were published together.
C3_NoTornPair ==
    /\ (req.kind = "image" /\ req.at = "done" /\ req.resp = 200)
            => PairPublishedTogether(req)
    /\ (req.kind = "status" /\ req.at = "done") => PairPublishedTogether(req)

\* the same for /image alone
ImageNoTornPair ==
    (req.kind = "image" /\ req.at = "done" /\ req.resp = 200)
        => PairPublishedTogether(req)

\* C4: the frame is present only if its timestamp is present.
C4_FrameHasTimestamp == frame_buffer # None => frame_buffer_time # None

ImageDone == req.kind = "image" /\ req.at = "done"
StatusDone == req.kind = "status" /\ req.at = "done"

\* no frame has been published: line 120 has never run
NothingPublished == nextFrame = 1

\* C18: while no frame has been published, the cache holds no frame and no
\* timestamp, every /image request that has been answered was answered
\* 404, and every /status answer reported no frame and no age.
C18_NoFrameNotFound ==
    NothingPublished =>
        /\ frame_buffer = None /\ frame_buffer_time = None
        /\ ImageDone => req.resp = 404
        /\ StatusDone => (req.frame = None /\ req.time = None)

\* an /image request was answered 404 after the clock had advanced and the
\* reader had opened the device, with nothing published
C18_Witness ==
    /\ NothingPublished
    /\ ImageDone /\ req.resp = 404
    /\ now > T0 /\ capOpen

\* C19: an /image request is answered 200 only if a frame was cached and
\* the timestamp tested was strictly greater than the clock less 5, and
\* then with mimetype image/jpeg; a request that arrives and is served at
\* the very time of the timestamp in the cache is answered 200 (when
\* imencode gives its result); a request that arrives more than 5 after
\* the timestamp of the last publish is answered 404.
C19_ImageOnlyWhenFresh ==
    ImageDone =>
        /\ req.resp = 200 =>
                /\ req.frame # None /\ req.time # None
                /\ req.time > req.testedAt - StaleAfter
                /\ req.mimetype = "image/jpeg"
        /\ (req.arrTime = req.arrived /\ now = req.arrived /\ req.ret # "fail")
                => req.resp = 200
        /\ (frame_buffer_time # None /\ req.arrived - frame_buffer_time > StaleAfter)
                => req.resp = 404

\* a request served 200 at age 4, and so at the last clock value for which
\* the frame is fresh
C19_Witness ==
    /\ ImageDone /\ req.resp = 200
    /\ req.testedAt - req.time = StaleAfter - 1
    /\ req.mimetype = "image/jpeg"

\* a request that arrived 6 after the last publish and was answered 404
C19_StaleWitness ==
    /\ ImageDone /\ req.resp = 404
    /\ frame_buffer_time # None
    /\ req.arrived - frame_buffer_time = StaleAfter + 1

\* the age of the timestamp image() tested, at the time of the test
TestedAge == req.testedAt - req.time

\* image() reached the test of line 48
Tested == req.time # None /\ req.testedAt # None

\* C20 as stated: an /image request is answered 200 whenever the frame in
\* the cache is at most 5 old, age exactly 5 included, and 404 otherwise.
C20_FreshUpToFiveInclusive ==
    (ImageDone /\ req.ret # "fail") =>
        (req.resp = 200 <=> (Tested /\ TestedAge <= StaleAfter))

\* C20 amended: an /image request is answered 200 exactly when a frame is
\* cached, its timestamp is less than 5 old (age exactly 5 excluded) and
\* imencode succeeds; it is answered 404 otherwise.
C20_FreshBelowFive ==
    ImageDone =>
        (req.resp = 200 <=> (Tested /\ TestedAge < StaleAfter /\ req.ret = "ok"))

\* a request was answered 404 for a frame exactly 5 old
C20_Witness ==
    /\ ImageDone /\ req.resp = 404
    /\ Tested /\ TestedAge = StaleAfter

\* the request was served within one clock value, and the timestamp in the
\* cache stayed what it was when the request arrived
ServedAtOnce == now = req.arrived /\ frame_buffer_time = req.arrTime

\* C21: an answered /status request reports as uptime the clock, at a time
\* within the request, less service.start_time; as frame_age the clock, at
\* a time within the request, less the timestamp in the cache; no frame_age
\* only if no frame had been published when the request arrived, and always
\* when none has been published by the answer; frame_available = true if a
\* frame was cached when it arrived.  Served at once 5 after start_time
\* with a frame published 1 before, it reports uptime 5, frame_available =
\* true and frame_age 1.
C21_StatusBody ==
    StatusDone =>
        /\ req.arrived - start_time <= req.uptime /\ req.uptime <= now - start_time
        /\ req.frame_age # NoAge =>
                /\ req.frame_age = <<req.testedAt - req.time>>
                /\ req.arrived <= req.testedAt /\ req.testedAt <= now
                /\ req.time # None
        /\ req.frame_age = NoAge => req.arrFrame = None
        /\ frame_buffer = None => req.frame_age = NoAge
        /\ req.arrFrame # None => req.frame_available
        /\ req.frame_available => frame_buffer # None
        /\ (ServedAtOnce /\ req.arrFrame # None /\ req.arrTime = now - 1
                /\ now - start_time = 5)
                => (req.frame_available /\ req.frame_age = <<1>> /\ req.uptime = 5)

\* what does hold of the body: the statement above, with "no frame has been
\* published" taken as "no timestamp has been stored"
StatusBodyByTimestamp ==
    StatusDone =>
        /\ req.arrived - start_time <= req.uptime /\ req.uptime <= now - start_time
        /\ req.frame_age # NoAge =>
                /\ req.frame_age = <<req.testedAt - req.time>>
                /\ req.arrived <= req.testedAt /\ req.testedAt <= now
                /\ req.time # None
        /\ req.frame_age = NoAge => req.arrTime = None
        /\ frame_buffer_time = None => req.frame_age = NoAge
        /\ req.arrFrame # None => req.frame_available
        /\ req.frame_available => frame_buffer # None
        /\ (ServedAtOnce /\ req.arrFrame # None /\ req.arrTime = now - 1
                /\ now - start_time = 5)
                => (req.frame_available /\ req.frame_age = <<1>> /\ req.uptime = 5)

\* the scenario: a request served at once, 5 after start_time, with a frame
\* published 1 before
StatusScenario ==
    /\ StatusDone /\ ServedAtOnce
    /\ req.arrFrame # None /\ req.arrTime = now - 1 /\ now - start_time = 5

\* a step of a read that gave a frame: line 120 stores the frame, line 121
\* the time
ReadSucceeds ==
    \/ /\ pc[READER] = "loop" /\ pc'[READER] = "stamp"
       /\ capOpen
       /\ frame_buffer' # None /\ frame_buffer_time' = frame_buffer_time
    \/ /\ pc[READER] = "stamp" /\ pc'[READER] = "loop"
       /\ frame_buffer' = frame_buffer /\ frame_buffer_time' = now

\* C26: a step that changes frame_buffer or frame_buffer_time is a step of
\* a read in frame_reader() that gave a frame; no other step of the reader
\* (a read that gives no frame, an exception, an open that fails, a
\* reopen, the exit path), of setup_camera(), of cleanup_camera(), of a
\* monitor, or of the /image and /status handlers changes either.
C26_OnlyReadSuccessWrites ==
    [][(frame_buffer' # frame_buffer \/ frame_buffer_time' # frame_buffer_time)
            => ReadSucceeds]_vars

\* the reader published a frame, then had a read without a frame and lost
\* the device, then an exception, and has ended after cleanup_camera(): the
\* cache holds what was published
C26_Witness ==
    /\ pc[READER] = "done" /\ exitReason = "hard"
    /\ softRun > 0 /\ openRun > 0
    /\ frame_buffer = 1 /\ frame_buffer_time = pubTime[1]
    /\ frame_buffer_time # None

\* a subprocess has failed, and the request arrived more than 5 after the
\* last timestamp stored
StaleAfterFailure ==
    /\ ~DeviceFed
    /\ pc[READER] # "stamp"
    /\ frame_buffer_time # None
    /\ req.arrived - frame_buffer_time > StaleAfter

\* C22: once gphoto2 or ffmpeg has failed and the last timestamp stored is
\* more than 5 old, a /image request that arrives is answered 404 and a
\* /status request that arrives is answered with frame_available = false.
C22_StaleFrameUnavailable ==
    StaleAfterFailure =>
        /\ ImageDone => req.resp = 404
        /\ StatusDone => ~req.frame_available

\* what does hold: /image answers 404, and /status reports the age, beyond
\* 5, of a frame it still calls available
StaleFrameNotServed ==
    StaleAfterFailure =>
        /\ ImageDone => req.resp = 404
        /\ StatusDone => /\ req.frame_available
                          /\ req.frame_age # NoAge
                          /\ req.frame_age[1] > StaleAfter

(***************************************************************************)
(* Properties of the frame reader                                          *)
(***************************************************************************)
ReaderExiting == pc[READER] \in ExitPcs

\* C5: more than 5 consecutive open failures stop the reader, which then
\* releases the device and calls cleanup_camera() exactly once; the reader
\* gives up on opening only then, not after 5 or fewer.
C5_OpenFailuresStopAfterSix ==
    /\ openRun > OpenRetryLimit => ReaderExiting
    /\ (exitReason = "open" /\ pc[READER] = "done")
            => (released /\ cleanupCalls[READER] = 1)
    /\ exitReason = "open" => openRun > OpenRetryLimit

\* C6: more than 500 consecutive soft read failures stop the reader; 500 or
\* fewer (499 followed by a frame) do not; and after a frame, before any
\* further failure, the counter is zero.
C6_SoftFailuresStopAfter501 ==
    /\ softRun > ReadRetryLimit => ReaderExiting
    /\ exitReason = "read" => softRun > ReadRetryLimit
    /\ (pc[READER] = "loop" /\ softRun = 0 /\ openRun = 0) => retries = 0

\* C7: the two budgets are separate: the reader gives up on opening only
\* after more than 5 consecutive open failures, whatever soft failures came
\* before, and gives up on reading only after more than 500 consecutive soft
\* failures, whatever open failures came before.
C7_SeparateRetryBudgets ==
    /\ (pc[READER] = "release" /\ exitReason = "open") => openRun > OpenRetryLimit
    /\ (pc[READER] = "release" /\ exitReason = "read") => softRun > ReadRetryLimit
    /\ (pc[READER] = "reopen") => openRun <= OpenRetryLimit

\* what does hold of the one counter
ReaderCounterFacts ==
    /\ openRun > OpenRetryLimit => ReaderExiting
    /\ softRun > ReadRetryLimit => ReaderExiting
    /\ (pc[READER] = "loop" /\ softRun = 0 /\ openRun = 0) => retries = 0
    /\ exitReason = "open" => retries > OpenRetryLimit
    /\ exitReason = "read" => retries > ReadRetryLimit
    /\ (exitReason \in {"open", "read", "hard"} /\ pc[READER] = "done")
            => (released /\ cleanupCalls[READER] = 1)

\* C8: once a step inside the loop has raised, the reader is on its exit
\* path (release, cleanup_camera, end) and has made no further open or read
\* attempt; when it has ended, the device was released and cleanup_camera()
\* was called once.
C8_HardFailureStopsAtOnce ==
    exitReason = "hard" =>
        /\ ReaderExiting
        /\ ~attemptAfterHard
        /\ pc[READER] = "done" => (released /\ cleanupCalls[READER] = 1)

\* the reader has ended after an exception that came with retries at 3
C8_Witness ==
    /\ exitReason = "hard"
    /\ pc[READER] = "done"
    /\ retries = 3
    /\ released

\* C9: the reader never ends without having released the device and then
\* called cleanup_camera().
C9_ExitReleasesAndCleansUp ==
    /\ pc[READER] \in {"done", "crashed"} => (released /\ cleanupCalls[READER] = 1)
    /\ pc[READER] = "cleanup" => released

(***************************************************************************)
(* Properties of the frame cache over the process's life                   *)
(***************************************************************************)
\* C31: once frame_buffer is set no step makes it None again, once
\* frame_buffer_time is set no step makes it None again, and no step stores
\* a timestamp lower than the one stored before.
C31_CacheNeverClears ==
    [][/\ frame_buffer # None => frame_buffer' # None
       /\ frame_buffer_time # None =>
            (frame_buffer_time' # None /\ frame_buffer_time' >= frame_buffer_time)]_vars

\* what holds: neither frame_buffer nor frame_buffer_time goes back to None
CacheNeverReturnsToAbsent ==
    [][/\ frame_buffer # None => frame_buffer' # None
       /\ frame_buffer_time # None => frame_buffer_time' # None]_vars

\* the second frame has been stamped with a time before that of the first
TimestampDecreased ==
    /\ frame_buffer = 2 /\ pc[READER] = "loop"
    /\ pubTime[1] # None /\ frame_buffer_time = pubTime[2]
    /\ pubTime[2] < pubTime[1]

====
